---- MODULE Spec2Model ----
(***************************************************************************)
(* TFSA_Tracker.py: a Streamlit script that is re-executed top to bottom   *)
(* on every interaction.  One action of this module is one execution of    *)
(* the script.  The state that survives between executions is the          *)
(* "contributions" table (db), the "user_settings" row (settings), the     *)
(* st.cache_data cache of load_data (cache) and st.session_state           *)
(* (start_year).  The remaining variables hold what the latest execution   *)
(* read and computed: the year read from the clock, the loaded DataFrame   *)
(* and the computed figures.  The values of the form's widgets are inputs  *)
(* of the execution that handles them.                                     *)
(*                                                                         *)
(* Amounts are whole dollars (integers); a row of the table is reduced to  *)
(* the two columns the computation reads: the year of its date and its     *)
(* signed amount.  The table and the DataFrame are bags of such rows.      *)
(***************************************************************************)
EXTENDS Integers, FiniteSets, Bags, TLC

VARIABLES
    db,            \* the user's rows of the "contributions" table
    settings,      \* the user's row of the "user_settings" table, if any
    cache,         \* the frame st.cache_data holds for load_data, if any
    start_year,    \* st.session_state.start_year, the select box's value
    current_year,  \* datetime.datetime.now().year as the latest execution read it
    df,            \* the frame the latest execution loaded
    out            \* what the latest execution computed: status "stopped"
                   \* (st.stop, no email), "KeyError" (raised by
                   \* get_total_limit), "empty" (total_limit only) or "ok"
                   \* (total_limit, room_used, carry_forward, room_remaining,
                   \* the over-contribution warning and the loop's values
                   \* per year)

vars == <<db, settings, cache, start_year, current_year, df, out>>

(* ---------------------------------------------------------------- bounds *)

\* most rows the contributions table holds
MaxRows == 2

(* ------------------------------------------------------------- constants *)

TFSA_LIMITS ==
    (2009 :> 5000) @@ (2010 :> 5000) @@ (2011 :> 5000) @@
    (2012 :> 5000) @@ (2013 :> 5500) @@ (2014 :> 5500) @@
    (2015 :> 10000) @@ (2016 :> 5500) @@ (2017 :> 5500) @@
    (2018 :> 5500) @@ (2019 :> 6000) @@ (2020 :> 6000) @@
    (2021 :> 6000) @@ (2022 :> 6000) @@ (2023 :> 6500) @@
    (2024 :> 7000) @@ (2025 :> 7000)

\* the last year the schedule lists
LastYear == 2025

\* the start year used when the session has none and when no row is stored
DefaultStartYear == 2009

\* list(TFSA_LIMITS.keys()), the options of the start-year select box
years == DOMAIN TFSA_LIMITS

(* ---------------------------------------------------------------- inputs *)

\* the start years the modelled user picks in the select box
StartYears == {LastYear - 1, LastYear}

\* the years the clock shows during the session
NowYears == {LastYear - 1, LastYear, LastYear + 1}

\* the years of the dates entered in the form
TxYears == {LastYear - 2, LastYear - 1, LastYear}

\* the amounts entered in the form (st.number_input, min_value 0.0)
Amounts == {0, 8000, 15000}

\* the start_year values a stored user_settings row holds when the session
\* starts; 2008 is a stored value that is no key of the schedule
StoredYears == StartYears \cup {2008}

\* the signed amounts save_row stores: amount for a deposit, -amount otherwise
SignedAmounts == Amounts \cup {-a : a \in Amounts}

\* a row of the contributions table
Rows == [year : TxYears, amount : SignedAmounts]

Max(a, b) == IF a >= b THEN a ELSE b

RECURSIVE SumAmounts(_, _)
\* pandas .sum() of the Amount column over the rows rs of the frame d
SumAmounts(d, rs) ==
    IF rs = {} THEN 0
    ELSE LET r == CHOOSE x \in rs : TRUE
         IN  r.amount * d[r] + SumAmounts(d, rs \ {r})

Abs(n) == IF n < 0 THEN -n ELSE n

(* ----------------------------------------------------- the computation *)

\* get_total_limit: sum(TFSA_LIMITS[y] for y in range(start_year, this_year + 1));
\* TFSA_LIMITS[y] raises KeyError for a year the schedule does not list
RECURSIVE SumLimits(_, _)
SumLimits(lo, hi) ==
    IF lo > hi THEN 0 ELSE TFSA_LIMITS[lo] + SumLimits(lo + 1, hi)

\* get_total_limit with range(start_year, this_year): the last year left out
get_total_limit_exclusive(sy, this_year) ==
    IF \E y \in sy .. (this_year - 1) : y \notin DOMAIN TFSA_LIMITS
    THEN [error |-> TRUE]
    ELSE [error |-> FALSE, value |-> SumLimits(sy, this_year - 1)]

get_total_limit(sy, this_year) ==
    IF \E y \in sy .. this_year : y \notin DOMAIN TFSA_LIMITS
    THEN [error |-> TRUE]
    ELSE [error |-> FALSE, value |-> SumLimits(sy, this_year)]

\* df[df["Amount"] > 0].groupby("Year")["Amount"].sum()
deposits_by_year(d) ==
    LET sel == {r \in DOMAIN d : r.amount > 0}
    IN  [y \in {r.year : r \in sel} |->
            SumAmounts(d, {r \in sel : r.year = y})]

\* df[df["Amount"] < 0].groupby("Year")["Amount"].sum().abs()
withdrawals_by_year(d) ==
    LET sel == {r \in DOMAIN d : r.amount < 0}
    IN  [y \in {r.year : r \in sel} |->
            Abs(SumAmounts(d, {r \in sel : r.year = y}))]

\* Series.get(key, default) and dict.get(key, default)
Get(s, k, default) == IF k \in DOMAIN s THEN s[k] ELSE default

\* the credit taken from the same year instead of the year before
withdrawal_credit_same_year(wby, yr, sy) ==
    IF yr > sy THEN Get(wby, yr, 0) ELSE 0

\* the credit also granted in the start year (yr >= start_year)
withdrawal_credit_from_start(wby, yr, sy) ==
    IF yr >= sy THEN Get(wby, yr - 1, 0) ELSE 0

\* withdrawals_by_year.get(yr - 1, 0) if yr > start_year else 0
withdrawal_credit(wby, yr, sy) ==
    IF yr > sy THEN Get(wby, yr - 1, 0) ELSE 0

\* carry_forward without the clamp at 0
next_carry_forward_unclamped(room_this_year, deposit) ==
    room_this_year - deposit

\* carry_forward = max(room_this_year - deposit, 0)
next_carry_forward(room_this_year, deposit) ==
    Max(room_this_year - deposit, 0)

RECURSIVE accrual_loop(_, _, _, _, _, _)
\* for yr in range(start_year, current_year + 1): ...
\* st holds room_used and carry_forward, and the values of each iteration
accrual_loop(yr, sy, cy, dby, wby, st) ==
    IF yr > cy THEN st
    ELSE LET limit_year     == Get(TFSA_LIMITS, yr, 0)
             deposit        == Get(dby, yr, 0)
             withdrawal     == withdrawal_credit(wby, yr, sy)
             room_this_year == limit_year + st.carry_forward + withdrawal
             cf             == next_carry_forward(room_this_year, deposit)
         IN  accrual_loop(yr + 1, sy, cy, dby, wby,
                 [room_used     |-> st.room_used + deposit,
                  carry_forward |-> cf,
                  trace         |-> st.trace @@
                      (yr :> [limit_year     |-> limit_year,
                              deposit        |-> deposit,
                              withdrawal     |-> withdrawal,
                              room_this_year |-> room_this_year,
                              carry_forward  |-> cf])])

\* room_remaining with index <= current_year
room_remaining_inclusive(total_limit, wby, cy, room_used) ==
    LET upto == {y \in DOMAIN wby : y <= cy}
        RECURSIVE SumSeries(_)
        SumSeries(ys) ==
            IF ys = {} THEN 0
            ELSE LET y == CHOOSE x \in ys : TRUE
                 IN  wby[y] + SumSeries(ys \ {y})
    IN  total_limit + SumSeries(upto) - room_used

\* total_limit + withdrawals_by_year.loc[index < current_year].sum() - room_used
room_remaining(total_limit, wby, cy, room_used) ==
    LET before == {y \in DOMAIN wby : y < cy}
        RECURSIVE SumSeries(_)
        SumSeries(ys) ==
            IF ys = {} THEN 0
            ELSE LET y == CHOOSE x \in ys : TRUE
                 IN  wby[y] + SumSeries(ys \ {y})
    IN  total_limit + SumSeries(before) - room_used

\* the comparison the other way round
over_contributed_swapped(room_used, total_limit) == total_limit > room_used

\* if room_used > total_limit: st.error("You have OVER-CONTRIBUTED ...")
over_contributed(room_used, total_limit) == room_used > total_limit

\* sections 8.1, 8.4 and 8.5 of the script on the frame d:
\* what one execution computes and shows
process_data(d, sy, cy) ==
    LET total == get_total_limit(sy, cy)
    IN  IF total.error THEN [status |-> "KeyError"]
        ELSE IF d = EmptyBag
        THEN [status |-> "empty", total_limit |-> total.value]
        ELSE LET dby == deposits_by_year(d)
                 wby == withdrawals_by_year(d)
                 st  == accrual_loop(sy, sy, cy, dby, wby,
                            [room_used |-> 0, carry_forward |-> 0,
                             trace |-> <<>>])
             IN  [status         |-> "ok",
                  total_limit    |-> total.value,
                  room_used      |-> st.room_used,
                  carry_forward  |-> st.carry_forward,
                  room_remaining |-> room_remaining(total.value, wby, cy,
                                                    st.room_used),
                  over           |-> over_contributed(st.room_used,
                                                      total.value),
                  trace          |-> st.trace]

(* ------------------------------------------------------- the stores *)

\* load_start_year: the stored start_year, 2009 when there is no row
load_start_year ==
    IF settings.has_row THEN settings.start_year ELSE DefaultStartYear

\* save_start_year: upsert of the user's row
save_start_year(year) == [has_row |-> TRUE, start_year |-> year]

\* load_data.clear()
cleared == [valid |-> FALSE, data |-> EmptyBag]

\* load_data under st.cache_data(ttl=10): the cached frame while the cache
\* holds one, else the rows of the table
load_data(c, table) == IF c.valid THEN c.data ELSE table

\* save_row: insert one row
save_row(table, row) == table (+) SetToBag({row})

\* delete_row: delete the row with the id of the selected row
delete_row(table, row) == table (-) SetToBag({row})

\* clear_all_data: delete every row of the user
clear_all_data == EmptyBag

(* -------------------------------------------------- one script execution *)

\* One execution of the script. ny is the year the clock shows, sel the value
\* the session holds for the select box when the execution starts, ev the
\* widget event that caused the execution: none, the form's "Add" with the
\* row it stores (its date's year and signed_amt = amount if transaction_type
\* == "Deposit" else -amount), "Delete Selected Row" with the row selected, or
\* "Clear All Data".
Script(ny, sel, ev) ==
    LET initial_year == load_start_year
        sy    == IF initial_year \in years THEN initial_year ELSE sel
        total == get_total_limit(sy, ny)
        db1   == IF ev.kind = "submit" THEN save_row(db, ev.row) ELSE db
        c1    == IF ev.kind = "submit" THEN cleared ELSE cache
        d     == load_data(c1, db1)
        c2    == [valid |-> TRUE, data |-> d]
    IN  /\ current_year' = ny
        /\ start_year' = sy
        /\ settings' = IF sy # initial_year THEN save_start_year(sy)
                       ELSE settings
        /\ out' = process_data(d, sy, ny)
        /\ IF total.error
           THEN \* KeyError at section 8.1: nothing after it is executed
                /\ ev.kind = "none"
                /\ df' = EmptyBag
                /\ UNCHANGED <<db, cache>>
           ELSE /\ df' = d
                /\ CASE ev.kind = "delete" ->
                          /\ d # EmptyBag
                          /\ BagIn(ev.row, d)
                          /\ db' = delete_row(db1, ev.row)
                          /\ cache' = cleared
                     [] ev.kind = "clear" ->
                          /\ d # EmptyBag
                          /\ db' = clear_all_data
                          /\ cache' = cleared
                     [] OTHER ->
                          /\ db' = db1
                          /\ cache' = c2

\* the years the clock can show at the next execution
Clock == {y \in {current_year, current_year + 1} : y \in NowYears}

NoEvent == [kind |-> "none"]

(* ---------------------------------------------------------------- actions *)

\* the user enters the email: the first execution that passes st.stop()
EnterEmail ==
    /\ out.status = "stopped"
    /\ \E ny \in Clock : Script(ny, start_year, NoEvent)

\* st_autorefresh, or any interaction that changes no input of the script
Rerun ==
    /\ out.status # "stopped"
    /\ \E ny \in Clock : Script(ny, start_year, NoEvent)

\* the user picks another year in the start-year select box
SelectStartYear ==
    /\ out.status # "stopped"
    /\ \E ny \in Clock, sel \in StartYears :
          /\ sel # start_year
          /\ Script(ny, sel, NoEvent)

\* the user presses "Add" in the form shown by the previous execution
Submit ==
    /\ out.status \in {"ok", "empty"}
    /\ BagCardinality(db) < MaxRows
    /\ \E ny \in Clock, row \in Rows :
          Script(ny, start_year, [kind |-> "submit", row |-> row])

\* the user presses "Delete Selected Row"
DeleteSelected ==
    /\ out.status = "ok"
    /\ \E ny \in Clock, row \in BagToSet(load_data(cache, db)) :
          Script(ny, start_year, [kind |-> "delete", row |-> row])

\* the user presses "Clear All Data"
ClearAll ==
    /\ out.status = "ok"
    /\ \E ny \in Clock : Script(ny, start_year, [kind |-> "clear"])

\* the ttl of st.cache_data runs out
CacheExpire ==
    /\ cache.valid
    /\ cache' = cleared
    /\ UNCHANGED <<db, settings, start_year, current_year, df, out>>

Init ==
    /\ db = EmptyBag
    /\ settings \in {[has_row |-> FALSE, start_year |-> DefaultStartYear]}
                   \cup [has_row : {TRUE}, start_year : StoredYears]
    /\ cache = cleared
    /\ start_year = DefaultStartYear
    /\ current_year \in NowYears
    /\ df = EmptyBag
    /\ out = [status |-> "stopped"]

Next ==
    \/ EnterEmail
    \/ Rerun
    \/ SelectStartYear
    \/ Submit
    \/ DeleteSelected
    \/ ClearAll
    \/ CacheExpire

Spec == Init /\ [][Next]_vars

(* ----------------------------------------------------------- properties *)

\* the latest execution computed the figures from df, start_year, current_year
OutIsComputed ==
    out.status # "stopped" => out = process_data(df, start_year, current_year)

\* the cache never holds anything but the rows of the table
CacheIsFresh == cache.valid => cache.data = db

\* the execution computed the summary (section 8.4, non-empty frame)
Computed == out.status = "ok"

\* every year of start_year..current_year is a key of the schedule
InSchedule == \A y \in start_year .. current_year : y \in years

\* the sum over start_year..current_year of the limits of the listed years
RECURSIVE ListedLimits(_, _)
ListedLimits(lo, hi) ==
    IF lo > hi THEN 0
    ELSE (IF lo \in years THEN TFSA_LIMITS[lo] ELSE 0) + ListedLimits(lo + 1, hi)

\* the four fields of the Summary
Summary(o) == <<o.total_limit, o.room_used, o.room_remaining, o.over>>

\* this step computes the summary of the frame with the row r added, for the
\* same start year and current year as the summary computed before it
Added(r) ==
    /\ out.status = "ok"
    /\ out'.status = "ok"
    /\ df' = df (+) SetToBag({r})
    /\ start_year' = start_year
    /\ current_year' = current_year

\* no iterated year's deposits exceed that year's room_this_year
NoYearExceeds ==
    \A y \in DOMAIN out.trace :
        out.trace[y].deposit <= out.trace[y].room_this_year

\* C1: the carry_forward left by every iteration of the accrual loop is >= 0,
\* whatever the ledger holds
C1_CarryForwardNonNegative ==
    Computed =>
        /\ out.carry_forward >= 0
        /\ \A y \in DOMAIN out.trace : out.trace[y].carry_forward >= 0

\* C1 witness: a year whose deposits exceed its room is followed by another year
C1_Witness ==
    /\ Computed
    /\ \E y \in DOMAIN out.trace :
          /\ out.trace[y].deposit > out.trace[y].room_this_year
          /\ y + 1 \in DOMAIN out.trace
          /\ out.trace[y + 1].room_this_year >= out.trace[y + 1].limit_year

\* C2 (as claimed): adding a row dated before start_year or after
\* current_year leaves the four fields of the Summary unchanged
C2_OutOfRangeNoEffect ==
    [][\A r \in Rows :
         (Added(r) /\ (r.year < start_year \/ r.year > current_year))
             => Summary(out') = Summary(out)]_vars

\* C3: adding a withdrawal of w dated Y, start_year <= Y < current_year,
\* raises room_this_year of Y + 1 by exactly w and leaves room_this_year of Y
\* alone; adding a withdrawal dated current_year leaves room_remaining alone
C3_WithdrawalCreditedNextYear ==
    [][\A r \in Rows :
         (Added(r) /\ r.amount < 0) =>
             /\ (start_year <= r.year /\ r.year < current_year) =>
                   /\ out'.trace[r.year + 1].room_this_year =
                          out.trace[r.year + 1].room_this_year - r.amount
                   /\ out'.trace[r.year].room_this_year =
                          out.trace[r.year].room_this_year
             /\ (r.year = current_year) =>
                   out'.room_remaining = out.room_remaining]_vars

\* C3 witness: the frame holds a withdrawal dated Y after the start year and
\* before the current year, and year Y + 1 was credited with it
C3_Witness ==
    /\ Computed
    /\ BagCardinality(df) >= 2
    /\ \E r \in DOMAIN df :
          /\ r.amount < 0
          /\ start_year < r.year /\ r.year < current_year
          /\ out.trace[r.year + 1].withdrawal >= -r.amount
          /\ out.trace[r.year].withdrawal = 0

\* C4 (as claimed): when start_year..current_year holds a year the schedule
\* does not list, the execution raises no error and total_limit is the sum of
\* the limits of the listed years of the range
C4_UnlistedYearCountsZero ==
    (out.status # "stopped" /\ ~InSchedule) =>
        /\ out.status \in {"ok", "empty"}
        /\ out.total_limit = ListedLimits(start_year, current_year)

\* C5 (as claimed): when start_year is no key of the schedule or start_year >
\* current_year, the execution raises no error and every figure it computes
\* is zero
C5_DegenerateRangeZeroSummary ==
    (out.status # "stopped"
        /\ (start_year \notin years \/ start_year > current_year)) =>
        /\ out.status \in {"ok", "empty"}
        /\ out.total_limit = 0
        /\ Computed =>
              /\ out.room_used = 0
              /\ out.room_remaining = 0
              /\ ~out.over

\* C6 (as claimed): for a ledger without rows and start_year <= current_year
\* within the schedule, the execution computes room_used = 0, room_remaining =
\* total_limit and no over-contribution
C6_EmptyLedgerSummary ==
    (out.status # "stopped" /\ df = EmptyBag /\ InSchedule
        /\ start_year <= current_year) =>
        /\ Computed
        /\ out.room_used = 0
        /\ out.room_remaining = out.total_limit
        /\ ~out.over

\* C6 (amended): for a ledger without rows and start_year <= current_year
\* within the schedule, the execution computes total_limit, the sum of the
\* limits of start_year..current_year, and nothing else: no room_used, no
\* room_remaining, no over-contribution warning.  room_used = 0,
\* room_remaining = total_limit and no warning are what it computes for a
\* ledger that holds rows, all of amount 0.
C6_EmptyLedgerTotalOnly ==
    /\ (out.status # "stopped" /\ df = EmptyBag /\ InSchedule
           /\ start_year <= current_year) =>
           /\ out.status = "empty"
           /\ DOMAIN out = {"status", "total_limit"}
           /\ out.total_limit = ListedLimits(start_year, current_year)
    /\ (Computed /\ start_year <= current_year
           /\ \A r \in DOMAIN df : r.amount = 0) =>
           /\ out.room_used = 0
           /\ out.total_limit = ListedLimits(start_year, current_year)
           /\ out.room_remaining = out.total_limit
           /\ ~out.over

\* C6 witness: an execution for a ledger without rows, over a range of at
\* least two years of the schedule
C6_Witness ==
    /\ out.status = "empty"
    /\ df = EmptyBag
    /\ db = EmptyBag
    /\ start_year < current_year
    /\ out.total_limit > 0

C8_ExceedingYearIsOverContributed ==
    Computed =>
        \A y \in DOMAIN out.trace :
            out.trace[y].deposit > out.trace[y].room_this_year =>
                /\ out.trace[y].carry_forward = 0
                /\ process_data(df, start_year, y).over
                /\ process_data(df, start_year, y).room_used >
                       process_data(df, start_year, y).total_limit

\* C8 witness: the deposits of a year before the current year exceed its room
C8_Witness ==
    /\ Computed
    /\ \E y \in DOMAIN out.trace :
          /\ y < current_year
          /\ out.trace[y].deposit > out.trace[y].room_this_year
          /\ out.trace[y].carry_forward = 0
          /\ process_data(df, start_year, y).over

\* C9: when every row is dated within start_year..current_year, the years
\* are all listed and no year's deposits exceed its room_this_year, the
\* carry_forward left by the last iteration equals room_remaining
C9_FoldEqualsClosedForm ==
    (Computed /\ start_year <= current_year /\ NoYearExceeds
        /\ \A r \in DOMAIN df :
               start_year <= r.year /\ r.year <= current_year) =>
        /\ out.carry_forward = out.room_remaining
        /\ out.trace[current_year].carry_forward = out.room_remaining

\* C9 witness: such a ledger with a withdrawal and a deposit
C9_Witness ==
    /\ Computed /\ start_year <= current_year /\ NoYearExceeds
    /\ \A r \in DOMAIN df : start_year <= r.year /\ r.year <= current_year
    /\ \E r \in DOMAIN df, q \in DOMAIN df : r.amount < 0 /\ q.amount > 0
    /\ out.room_remaining > 0

\* C10 (as claimed): a ledger in which no iterated year's deposits exceed
\* that year's room_this_year is not reported as over-contributed
C10_NoExceedingYearNotOver ==
    (Computed /\ NoYearExceeds) => ~out.over

TypeOK ==
    /\ BagCardinality(db) <= MaxRows
    /\ out.status \in {"stopped", "KeyError", "empty", "ok"}
    /\ start_year \in years
    /\ current_year \in NowYears

====
